---- MODULE Spec2Model ----
(***************************************************************************)
(* State-machine model of react-netlify-identity's useNetlifyIdentity hook *)
(* (src/src/index2.tsx): the auth state store (user, param, settings),     *)
(* the operation facade, the two mount effects, and the asynchronous       *)
(* backend calls in flight.                                                *)
(*                                                                         *)
(* A user object is identified by a number; NoUser is `undefined`.  The    *)
(* access token is a mutable field of the object (tokenOf), because the    *)
(* closures of the hook hold references to objects, not copies.            *)
(* A state update and the re-render it causes are one step: React          *)
(* re-renders synchronously when setState is called from a promise         *)
(* continuation, so callbacks with [user] dependencies always see the      *)
(* slot's value, while the callbacks memoized with [] keep the bindings of *)
(* the first render (memoUser).                                            *)
(*                                                                         *)
(* Spec is the hook mounted through IdentityContextProvider with a valid   *)
(* URL.  SpecSetup varies the entry point and the URL, and lets the URL    *)
(* change between renders (a new GoTrue instance per change, clients).     *)
(***************************************************************************)
EXTENDS Integers, FiniteSets, Sequences, Bags, TLC

\* ---------------------------------------------------------------- bounds
MaxUsers  == 3   \* user objects the backend can hand out
MaxCalls  == 2   \* invocations of entries of the hook API per run
MaxMounts == 2   \* page loads (mounts of the hook) per run
MaxUrlChanges == 1   \* changes of the instance URL per mount

\* ------------------------------------------------------------ vocabulary
NoUser  == 0
NoToken == 0
Users   == 1..MaxUsers

\* User 1 is a record without session (what signup returns while the
\* account is unconfirmed); every other object carries its own access token.
InitToken == [u \in Users |-> IF u = 1 THEN NoToken ELSE u]

errors == [noTokenFound |-> "no user token found",
           noUserFound  |-> "No current user found - are you logged in?"]

defaultSettings == "default"
fetchedSettings == "fetched"

defaultParam == [token |-> NoToken, type |-> "undefined", error |-> "none"]

ConfirmTypes == {"confirmation", "invite", "email_change"}
FlowTypes    == ConfirmTypes \cup {"recovery", "access"}
LinkToken    == 1

\* What the page location can carry: nothing, a token of one flow type, or
\* the provider's access_denied error.
NoLocation    == [token |-> NoToken, type |-> "undefined", error |-> "none"]
ErrorLocation == [token |-> NoToken, type |-> "undefined", error |-> "access_denied"]
Locations ==
  {NoLocation, ErrorLocation}
    \cup {[token |-> LinkToken, type |-> t, error |-> "none"] : t \in FlowTypes}

Methods == {"GET", "POST", "PUT", "DELETE"}

\* The instance URL the application configures, by the parts validateUrl's
\* pattern looks at: the scheme before "//", the "//" itself, and the host.
EmptyUrl   == [scheme |-> "", slashes |-> FALSE, host |-> ""]
DefaultUrl == [scheme |-> "https", slashes |-> TRUE, host |-> "one.netlify.app"]
Urls ==
  {EmptyUrl, DefaultUrl,
   [scheme |-> "https", slashes |-> TRUE,  host |-> "two.netlify.app"],
   [scheme |-> "",      slashes |-> FALSE, host |-> "one.netlify.app"],
   [scheme |-> "http",  slashes |-> TRUE,  host |-> "localhost"],
   [scheme |-> "https", slashes |-> TRUE,  host |-> "192.168.0.1"]}

\* validateUrl: an optional http / https / ftp scheme, then "//", then a
\* host that is a public IP address or a name ending in a top-level domain
\* (private address ranges and bare names such as localhost do not match).
validateUrl(value) ==
  /\ value.scheme \in {"", "http", "https", "ftp"}
  /\ value.slashes
  /\ value.host \in {"one.netlify.app", "two.netlify.app"}

\* The two public entry points.
Entries == {"provider", "hook"}

\* IdentityContextProvider throws on `!url || !validateUrl(url)` before it
\* calls useNetlifyIdentity; useNetlifyIdentity called directly has no check.
SetupOk(e, value) ==
  e = "hook" \/ (value # EmptyUrl /\ validateUrl(value))

VARIABLES
  mounted,          \* the hook is mounted
  enableRunRoutes,  \* third argument of useNetlifyIdentity
  location,         \* the page location (fragment / query)
  opened,           \* the link that loaded the page
  persisted,        \* goTrueInstance.currentUser(): the locally persisted session
  tokenOf,          \* token.access_token of each user object on the heap
  user,             \* useState slot: the current user
  param,            \* useState slot: the TokenParam
  settings,         \* useState slot: the settings
  memoUser,         \* `user` as bound in the closures memoized with [] deps
  inflight,         \* backend promises not yet settled (a bag)
  calls,            \* API invocations so far
  mounts,           \* mounts so far
  mutations,        \* calls of the state setter setUser since mount
  rawSets,          \* of which: through the exposed raw setUser
  listenerCount,    \* invocations of onAuthChange since mount
  listenerLast,     \* argument of its last invocation
  routerRuns,       \* invocations of runRoutes since mount
  settingsFetches,  \* invocations of goTrueInstance.settings since mount
  confirmCalls,     \* backend token-confirmation calls, per link type
  settingsFetch,    \* the settings promise: "idle", "pending", "resolved", "failed"
  firstParam,       \* the param the first render returned
  entry,            \* the entry point the application uses
  url,              \* the instance URL it passes in
  clients,          \* URLs of the GoTrue instances constructed since mount
  lastEv            \* the step just taken and what it returned to its caller

vars == <<mounted, enableRunRoutes, location, opened, persisted, tokenOf, user, param,
          settings, memoUser, inflight, calls, mounts, mutations,
          rawSets, listenerCount, listenerLast, routerRuns, settingsFetches,
          confirmCalls, settingsFetch, firstParam, entry, url, clients, lastEv>>

\* The GoTrue instance a facade callback reaches: loginProvider and
\* acceptInviteExternalUrl are memoized with [] and keep the instance of the
\* first render; signupUser, loginUser, requestPasswordRecovery and
\* recoverAccount are memoized on [goTrueInstance] and follow it; the other
\* entries do not call the instance.
DelegateClient(op) ==
  IF op \in {"loginProvider", "acceptInviteExternalUrl"} THEN 1
  ELSE IF op \in {"signup", "login", "requestPasswordRecovery", "recover"}
         THEN Len(clients)
  ELSE 0

\* An event: the step (act, op) and what its caller got back.  kind is
\* "pending" (a promise), "value" (the result val), "throw" / "reject" (the
\* failure err), "request" (a network request whose bearer token is val) or
\* "request-own-headers" (a network request with the caller's headers).
\* got is what the backend resolved with, was the value the user slot had
\* when the settled call was issued.  The remaining fields say what the step
\* did: listener invocations, setter calls, backend calls issued (-1: one
\* settled), and whether the user slot or param changed.  client is the
\* GoTrue instance a facade call delegated to (its index in clients, 0 if
\* none), latest the instance of the current render.
Ev(act, op, kind, val, err, got, was) ==
  [act |-> act, op |-> op, kind |-> kind, val |-> val, err |-> err,
   got |-> got, was |-> was,
   client |-> IF act = "call" THEN DelegateClient(op) ELSE 0,
   latest |-> Len(clients),
   notified     |-> listenerCount' - listenerCount,
   mutated      |-> mutations' - mutations,
   issued       |-> BagCardinality(inflight') - BagCardinality(inflight),
   userChanged  |-> user' # user,
   paramChanged |-> param' # param]

\* The event of a page-level step (initial state, mount, unload).
PageEv(act) ==
  [act |-> act, op |-> "none", kind |-> "none", val |-> NoUser, err |-> "none",
   got |-> NoUser, was |-> NoUser, client |-> 0, latest |-> 0,
   notified |-> 0, mutated |-> 0, issued |-> 0,
   userChanged |-> FALSE, paramChanged |-> FALSE]

HookInit ==
  /\ mounted = FALSE
  /\ enableRunRoutes \in BOOLEAN
  /\ location \in Locations
  /\ opened = location
  /\ persisted \in {NoUser} \cup {u \in Users : InitToken[u] # NoToken}
  /\ tokenOf = InitToken
  /\ user = NoUser
  /\ param = defaultParam
  /\ settings = defaultSettings
  /\ memoUser = NoUser
  /\ inflight = EmptyBag
  /\ calls = 0
  /\ mounts = 0
  /\ mutations = 0
  /\ rawSets = 0
  /\ listenerCount = 0
  /\ listenerLast = NoUser
  /\ routerRuns = 0
  /\ settingsFetches = 0
  /\ confirmCalls = [t \in ConfirmTypes |-> 0]
  /\ settingsFetch = "idle"
  /\ firstParam = defaultParam
  /\ clients = <<>>
  /\ lastEv = PageEv("init")

\* The application mounts IdentityContextProvider with a valid instance URL.
Init ==
  /\ entry = "provider"
  /\ url = DefaultUrl
  /\ HookInit

\* ------------------------------------------------------- auth state store

\* A variant of the central setter that forgets to notify the listener.
_setUser_silent(_user) ==
  /\ user' = _user
  /\ mutations' = mutations + 1
  /\ UNCHANGED <<listenerCount, listenerLast>>

\* A variant of the central setter that keeps a user already present.
_setUser_keepFirst(_user) ==
  /\ user' = IF user # NoUser /\ _user # NoUser THEN user ELSE _user
  /\ mutations' = mutations + 1
  /\ listenerCount' = listenerCount + 1
  /\ listenerLast' = _user

\* _setUser: set the slot, notify the listener with the new value.
_setUser(_user) ==
  /\ user' = _user
  /\ mutations' = mutations + 1
  /\ listenerCount' = listenerCount + 1
  /\ listenerLast' = _user

\* A variant of the setter's result that drops `return _user`.
ChainResult_void(_user, listenerThrows) ==
  IF listenerThrows
    THEN [kind |-> "reject", val |-> NoUser, err |-> "listener"]
    ELSE [kind |-> "value", val |-> NoUser, err |-> "none"]

\* What `.then(_setUser)` settles to: _setUser returns its argument, and a
\* listener that throws (after the slot was set) rejects the chain.
ChainResult(_user, listenerThrows) ==
  IF listenerThrows
    THEN [kind |-> "reject", val |-> NoUser, err |-> "listener"]
    ELSE [kind |-> "value", val |-> _user, err |-> "none"]

\* ------------------------------------------------------------ flow router

\* The TokenParam the router returns for a location.
RouterParam(loc) == [token |-> loc.token, type |-> loc.type, error |-> loc.error]

\* The backend operation the router dispatches to: token confirmation for
\* confirmation / invite / email_change, createUser for a provider callback,
\* none for recovery, access_denied or an empty location.
RouterBackendOp(loc) ==
  IF loc.type \in ConfirmTypes THEN "confirm"
  ELSE IF loc.type = "access" THEN "createUser"
  ELSE "none"

\* The router strips the consumed parameters from the visible location.
StrippedLocation(loc) == NoLocation

\* A variant of the effect that ignores enableRunRoutes.
ShouldRunRoutes_always(enable) == TRUE

\* The guard of the mount effect: if (enableRunRoutes).
ShouldRunRoutes(enable) == enable

\* A backend call in flight: the operation, the user object it was called
\* on, the remember flag, and the value of the user slot when it was issued.
Call(op, obj, remember, was) ==
  [op |-> op, obj |-> obj, remember |-> remember, was |-> was]

\* A variant of the initial state that ignores the persisted session.
InitialUser_none(stored) == NoUser

\* useState(goTrueInstance.currentUser() || undefined)
InitialUser(stored) == stored

\* A variant of the effect's test that looks at the token only.
KeepsParam_tokenOnly(p) == p.token # NoToken

\* if (param.token || param.error) setParam(param)
KeepsParam(p) == p.token # NoToken \/ p.error # "none"

\* Mount: first render (state initialised from the persisted session and the
\* default param and settings), then the two [] effects: the flow router
\* (parse, dispatch, strip, setParam) and the settings fetch.
Mount ==
  /\ ~mounted
  /\ mounts < MaxMounts
  /\ SetupOk(entry, url)
  /\ LET run    == ShouldRunRoutes(enableRunRoutes)
         p      == IF run THEN RouterParam(location) ELSE defaultParam
         rop    == IF run THEN RouterBackendOp(location) ELSE "none"
         rcalls == IF rop = "none" THEN {} ELSE {Call(rop, NoUser, TRUE, persisted)}
         scall  == Call("settings", NoUser, TRUE, persisted)
     IN /\ mounted' = TRUE
        /\ mounts' = mounts + 1
        /\ clients' = <<url>>
        /\ user' = InitialUser(persisted)
        /\ memoUser' = InitialUser(persisted)
        /\ settings' = defaultSettings
        /\ firstParam' = defaultParam
        /\ param' = IF KeepsParam(p) THEN p ELSE defaultParam
        /\ location' = IF run THEN StrippedLocation(location) ELSE location
        /\ routerRuns' = IF run THEN 1 ELSE 0
        /\ confirmCalls' = IF rop = "confirm"
                             THEN [confirmCalls EXCEPT ![location.type] = @ + 1]
                             ELSE confirmCalls
        /\ settingsFetches' = 1
        /\ settingsFetch' = "pending"
        /\ inflight' = SetToBag(rcalls \cup {scall})
        /\ mutations' = 0
        /\ rawSets' = 0
        /\ listenerCount' = 0
        /\ listenerLast' = NoUser
        /\ lastEv' = PageEv("mount")
  /\ UNCHANGED <<enableRunRoutes, opened, persisted, tokenOf, calls, entry, url>>

\* The page is left or reloaded: the hook's state and the promises in flight
\* are gone, the heap is rebuilt, and the next page load opens one of locs.
LeavePage(locs) ==
  /\ mounted' = FALSE
  /\ location' \in locs
  /\ opened' = location'
  /\ tokenOf' = InitToken
  /\ user' = NoUser
  /\ memoUser' = NoUser
  /\ param' = defaultParam
  /\ settings' = defaultSettings
  /\ inflight' = EmptyBag
  /\ mutations' = 0
  /\ rawSets' = 0
  /\ listenerCount' = 0
  /\ listenerLast' = NoUser
  /\ routerRuns' = 0
  /\ settingsFetches' = 0
  /\ settingsFetch' = "idle"
  /\ firstParam' = defaultParam
  /\ clients' = <<>>
  /\ UNCHANGED <<enableRunRoutes, persisted, mounts, confirmCalls, entry, url>>

\* Reload of the current location, or the link that loaded the page is
\* opened once more.
Unload ==
  /\ mounted
  /\ LeavePage({location, opened})
  /\ UNCHANGED calls
  /\ lastEv' = PageEv("unload")

\* ------------------------------------------------------- operation facade

ApiCall == mounted /\ calls < MaxCalls

\* Frame of a step that only starts or settles a backend call.
StoreUnchanged ==
  UNCHANGED <<user, mutations, rawSets, listenerCount, listenerLast>>

PageUnchanged ==
  UNCHANGED <<mounted, enableRunRoutes, location, opened, param, memoUser,
              mounts, routerRuns, settingsFetches, confirmCalls, firstParam,
              entry, url, clients>>

\* A variant in which getFreshJWT lacks its check of the current user.
NeedsUser_jwtUnguarded(op) == op \in {"update", "logout"}

\* The operations that test the current user before calling the backend:
\* updateUser, getFreshJWT, logoutUser.
NeedsUser(op) == op \in {"update", "jwt", "logout"}

\* A facade operation is invoked.  Those that need a user throw when the slot
\* is empty; otherwise the backend call is issued (on the current user object
\* for update / jwt / logout) and the caller holds a pending promise.
Invoke(op, remember) ==
  /\ ApiCall
  /\ calls' = calls + 1
  /\ StoreUnchanged
  /\ PageUnchanged
  /\ UNCHANGED <<persisted, tokenOf, settings, settingsFetch>>
  /\ IF NeedsUser(op) /\ user = NoUser
       THEN /\ UNCHANGED inflight
            /\ lastEv' = Ev("call", op, "throw", NoUser, errors.noUserFound,
                            NoUser, NoUser)
       ELSE /\ inflight' = inflight (+) SetToBag(
                 {Call(op, IF op \in {"update", "jwt", "logout"} THEN user ELSE NoUser,
                       remember, user)})
            /\ lastEv' = Ev("call", op, "pending", NoUser, "none", NoUser, NoUser)

signupUser              == Invoke("signup", TRUE)
loginUser               == \E remember \in BOOLEAN : Invoke("login", remember)
requestPasswordRecovery == Invoke("requestPasswordRecovery", TRUE)
recoverAccount          == \E remember \in BOOLEAN : Invoke("recover", remember)
updateUser              == Invoke("update", TRUE)
getFreshJWT             == Invoke("jwt", TRUE)
logoutUser              == Invoke("logout", TRUE)

\* The raw state setter exposed in the API ("not meant for normal use").
setUser ==
  /\ ApiCall
  /\ calls' = calls + 1
  /\ \E v \in {NoUser} \cup Users : user' = v
  /\ mutations' = mutations + 1
  /\ rawSets' = rawSets + 1
  /\ PageUnchanged
  /\ UNCHANGED <<persisted, tokenOf, settings, settingsFetch, inflight, listenerCount, listenerLast>>
  /\ lastEv' = Ev("call", "setUser", "value", NoUser, "none", NoUser, NoUser)

\* The `user` that the authedFetch methods read: useMemo(..., []) keeps the
\* genericAuthedFetch closures of the first render.
AuthedFetchUser == memoUser

\* authedFetch.get / post / put / delete.  customHeaders: the caller's obj
\* has a `headers` key, which Object.assign lets replace the default headers.
authedFetch ==
  /\ ApiCall
  /\ calls' = calls + 1
  /\ StoreUnchanged
  /\ PageUnchanged
  /\ UNCHANGED <<persisted, tokenOf, settings, settingsFetch, inflight>>
  /\ \E method \in Methods, customHeaders \in BOOLEAN :
       LET u == AuthedFetchUser IN
       IF u = NoUser \/ tokenOf[u] = NoToken
         THEN lastEv' = Ev("authedFetch", method, "throw", NoToken,
                           errors.noTokenFound, NoUser, NoUser)
         ELSE lastEv' = Ev("authedFetch", method,
                           IF customHeaders THEN "request-own-headers" ELSE "request",
                           IF customHeaders THEN NoToken ELSE tokenOf[u],
                           "none", NoUser, NoUser)

\* loginProvider: window.location.href = <provider url>; the provider sends
\* the browser back with an access token or with access_denied.
loginProvider ==
  /\ ApiCall
  /\ calls' = calls + 1
  /\ LeavePage({ErrorLocation, [token |-> LinkToken, type |-> "access", error |-> "none"]})
  /\ lastEv' = [PageEv("loginProvider") EXCEPT
                  !.op = "loginProvider",
                  !.client = DelegateClient("loginProvider"),
                  !.latest = Len(clients)]

\* acceptInviteExternalUrl: returns the backend's URL string.
acceptInviteExternalUrl ==
  /\ ApiCall
  /\ calls' = calls + 1
  /\ StoreUnchanged
  /\ PageUnchanged
  /\ UNCHANGED <<persisted, tokenOf, settings, settingsFetch, inflight>>
  /\ lastEv' = Ev("call", "acceptInviteExternalUrl", "value", NoUser, "none",
                  NoUser, NoUser)

\* ------------------------------------------------- backend calls settling

\* The user objects the backend can resolve an operation with: signup may
\* return a record without a session, every other operation a user whose
\* token is live.
ResultUsers(op) ==
  IF op = "signup" THEN Users ELSE {u \in Users : tokenOf[u] # NoToken}

\* The operations whose promise chain ends in .then(_setUser):
\* signupUser, loginUser, updateUser.  recoverAccount returns the backend's
\* promise as it is.
ThenSetUser(op) == op \in {"signup", "login", "update"}

\* The backend resolves signup / login / update / recover with a user.
ResolveUser ==
  \E r \in BagToSet(inflight), listenerThrows \in BOOLEAN :
    /\ r.op \in {"signup", "login", "update", "recover"}
    /\ inflight' = inflight (-) SetToBag({r})
    /\ PageUnchanged
    /\ UNCHANGED <<tokenOf, settings, settingsFetch, calls, rawSets>>
    /\ \E u \in ResultUsers(r.op) :
         /\ persisted' = IF r.op \in {"login", "recover"} /\ r.remember
                           THEN u ELSE persisted
         /\ IF ThenSetUser(r.op)
              THEN /\ _setUser(u)
                   /\ LET res == ChainResult(u, listenerThrows)
                      IN lastEv' = Ev("resolve", r.op, res.kind, res.val, res.err,
                                      u, r.was)
              ELSE /\ ~listenerThrows
                   /\ UNCHANGED <<user, mutations, listenerCount, listenerLast>>
                   /\ lastEv' = Ev("resolve", r.op, "value", u, "none", u, r.was)

\* The backend resolves user.logout(): the session is gone (the client may
\* also clear the token held by the object), then () => _setUser(undefined).
ResolveLogout ==
  \E r \in BagToSet(inflight), listenerThrows \in BOOLEAN, clearsToken \in BOOLEAN :
    /\ r.op = "logout"
    /\ inflight' = inflight (-) SetToBag({r})
    /\ persisted' = NoUser
    /\ tokenOf' = IF clearsToken /\ r.obj # NoUser
                    THEN [tokenOf EXCEPT ![r.obj] = NoToken] ELSE tokenOf
    /\ PageUnchanged
    /\ UNCHANGED <<settings, settingsFetch, calls, rawSets>>
    /\ _setUser(NoUser)
    /\ LET res == ChainResult(NoUser, listenerThrows)
       IN lastEv' = Ev("resolve", r.op, res.kind, res.val, res.err, NoUser, r.was)

\* The backend resolves requestPasswordRecovery (nothing) or user.jwt() (the
\* token string): neither touches the store.
ResolveVoid ==
  \E r \in BagToSet(inflight) :
    /\ r.op \in {"requestPasswordRecovery", "jwt"}
    /\ inflight' = inflight (-) SetToBag({r})
    /\ StoreUnchanged
    /\ PageUnchanged
    /\ UNCHANGED <<persisted, tokenOf, settings, settingsFetch, calls>>
    /\ lastEv' = Ev("resolve", r.op, "value", NoUser, "none", NoUser, r.was)

\* The backend resolves the call the flow router made: the user it supplies
\* is fed into the state-update callback the hook passed in (_setUser).
ResolveRouter ==
  \E r \in BagToSet(inflight), listenerThrows \in BOOLEAN :
    /\ r.op \in {"confirm", "createUser"}
    /\ inflight' = inflight (-) SetToBag({r})
    /\ PageUnchanged
    /\ UNCHANGED <<tokenOf, settings, settingsFetch, calls, rawSets>>
    /\ \E u \in ResultUsers(r.op) :
         /\ persisted' = u
         /\ _setUser(u)
         /\ LET res == ChainResult(u, listenerThrows)
            IN lastEv' = Ev("resolve", r.op, res.kind, res.val, res.err, u, r.was)

\* A variant of the settings slot's setter that drops the fetched value.
SetSettings_dropped(fetched) == defaultSettings

\* setSettings, the setter of the settings slot.
SetSettings(fetched) == fetched

\* _settings().then(setSettings)
ResolveSettings ==
  \E r \in BagToSet(inflight) :
    /\ r.op = "settings"
    /\ inflight' = inflight (-) SetToBag({r})
    /\ settings' = SetSettings(fetchedSettings)
    /\ settingsFetch' = "resolved"
    /\ StoreUnchanged
    /\ PageUnchanged
    /\ UNCHANGED <<persisted, tokenOf, calls>>
    /\ lastEv' = Ev("resolve", r.op, "value", NoUser, "none", NoUser, r.was)

\* A variant that issues the rejected backend call again instead of
\* failing.
Rejected_retry(r) ==
  /\ inflight' = inflight
  /\ StoreUnchanged
  /\ lastEv' = Ev("reject", r.op, "pending", NoUser, "none", NoUser, r.was)

\* No chain has a rejection handler: the backend's rejection settles the
\* promise the caller holds, and nothing else happens.
Rejected(r) ==
  /\ inflight' = inflight (-) SetToBag({r})
  /\ StoreUnchanged
  /\ lastEv' = Ev("reject", r.op, "reject", NoUser, "backend", NoUser, r.was)

\* The backend rejects a call.
BackendReject ==
  \E r \in BagToSet(inflight) :
    /\ PageUnchanged
    /\ UNCHANGED <<persisted, tokenOf, settings, calls>>
    /\ settingsFetch' = IF r.op = "settings" THEN "failed" ELSE settingsFetch
    /\ Rejected(r)

Next ==
  \/ Mount
  \/ Unload
  \/ signupUser
  \/ loginUser
  \/ requestPasswordRecovery
  \/ recoverAccount
  \/ updateUser
  \/ getFreshJWT
  \/ logoutUser
  \/ setUser
  \/ authedFetch
  \/ loginProvider
  \/ acceptInviteExternalUrl
  \/ ResolveUser
  \/ ResolveLogout
  \/ ResolveVoid
  \/ ResolveRouter
  \/ ResolveSettings
  \/ BackendReject

Spec == Init /\ [][Next]_vars

\* ------------------------------------------- initialization and URL change

\* The application may use either entry point with any URL.  The page is
\* opened plainly or through a confirmation link, with the router enabled
\* and no persisted session.
InitSetup ==
  /\ entry \in Entries
  /\ url \in Urls
  /\ HookInit
  /\ enableRunRoutes
  /\ persisted = NoUser
  /\ location \in {NoLocation, [token |-> LinkToken, type |-> "confirmation", error |-> "none"]}

\* IdentityContextProvider: throw new Error('invalid netlify instance URL')
\* during the first render; nothing of the hook has run.
InitError ==
  /\ ~mounted
  /\ lastEv.act = "init"
  /\ ~SetupOk(entry, url)
  /\ lastEv' = PageEv("init-error")
  /\ UNCHANGED <<mounted, enableRunRoutes, location, opened, persisted, tokenOf,
                 user, param, settings, memoUser, inflight, calls, mounts,
                 mutations, rawSets, listenerCount, listenerLast, routerRuns,
                 settingsFetches, confirmCalls, settingsFetch, firstParam,
                 entry, url, clients>>

\* The application re-renders with the URL of another instance:
\* useMemo(..., [url]) constructs a new GoTrue instance; the state slots,
\* the [] effects and the [] callbacks stay as they are.
ChangeUrl ==
  /\ mounted
  /\ Len(clients) <= MaxUrlChanges
  /\ \E value \in Urls \ {url} :
       /\ validateUrl(value)
       /\ url' = value
       /\ clients' = Append(clients, value)
  /\ lastEv' = PageEv("changeUrl")
  /\ UNCHANGED <<mounted, enableRunRoutes, location, opened, persisted, tokenOf,
                 user, param, settings, memoUser, inflight, calls, mounts,
                 mutations, rawSets, listenerCount, listenerLast, routerRuns,
                 settingsFetches, confirmCalls, settingsFetch, firstParam, entry>>

\* Initialization, a change of URL, and the facade operations that reach the
\* GoTrue instance.
NextSetup ==
  \/ Mount
  \/ InitError
  \/ ChangeUrl
  \/ signupUser
  \/ loginUser
  \/ requestPasswordRecovery
  \/ recoverAccount
  \/ loginProvider
  \/ acceptInviteExternalUrl
  \/ ResolveUser
  \/ ResolveVoid
  \/ ResolveRouter
  \/ ResolveSettings
  \/ BackendReject

SpecSetup == InitSetup /\ [][NextSetup]_vars

\* ------------------------------------------------------------------ claims

HasToken(u) == u # NoUser /\ tokenOf[u] # NoToken

\* C1: after facade operations only (no raw setUser), whenever the store's
\* current user is absent or carries no access token, an authedFetch method
\* fails with "no token found" and issues no network request.
C1_NoTokenNoRequest ==
  (lastEv.act = "authedFetch" /\ rawSets = 0 /\ ~HasToken(user))
    => (lastEv.kind = "throw" /\ lastEv.err = errors.noTokenFound)

\* C2: whenever the store's current user is present with an access token, an
\* authedFetch method called without headers of its own does not fail with
\* "no token found" but issues one request whose bearer token is the access
\* token of the store's current user.
C2_BearerOfCurrentUser ==
  (lastEv.act = "authedFetch" /\ rawSets = 0 /\ HasToken(user)
     /\ lastEv.kind # "request-own-headers")
    => (lastEv.kind = "request" /\ lastEv.val = tokenOf[user])

\* C3 as stated: since mount the listener was invoked once per mutation of
\* the user slot, and its last argument is the slot's current value.
C3_EveryMutationNotifies ==
  mounted => /\ listenerCount = mutations
             /\ (mutations > 0 => listenerLast = user)

\* C3 amended: the same for every entry of the API but the raw setUser: the
\* listener was invoked once per mutation not made through raw setUser, a
\* step of any other entry that sets the slot notifies the listener once with
\* the slot's new value, and while raw setUser has not been used the
\* listener's last argument is the slot's value.
C3_Amended ==
  mounted =>
    /\ listenerCount = mutations - rawSets
    /\ (lastEv.mutated > 0 /\ lastEv.op # "setUser"
          => lastEv.mutated = 1 /\ lastEv.notified = 1 /\ listenerLast = user)
    /\ (rawSets = 0 /\ mutations > 0 => listenerLast = user)

C3_Witness ==
  /\ mounted
  /\ rawSets = 1
  /\ lastEv.act = "resolve"
  /\ lastEv.op = "login"
  /\ listenerCount = 1
  /\ listenerLast = user

\* C4: when the backend resolves recoverAccount with a user, the store's
\* current user becomes that user and the listener is invoked once with it.
C4_RecoverFunnels ==
  (lastEv.act = "resolve" /\ lastEv.op = "recover")
    => (user = lastEv.got /\ lastEv.notified = 1 /\ listenerLast = lastEv.got)

\* C5: when the backend logout resolves, the store's user becomes absent and
\* the listener is invoked exactly once, with the absent value; the call of
\* logoutUser itself, with a user set, leaves the store as it is.
C5_LogoutClearsOnResolve ==
  /\ (lastEv.act = "resolve" /\ lastEv.op = "logout")
       => (user = NoUser /\ lastEv.notified = 1 /\ lastEv.mutated = 1
             /\ listenerLast = NoUser)
  /\ (lastEv.act = "call" /\ lastEv.op = "logout" /\ lastEv.kind = "pending")
       => (user # NoUser /\ ~lastEv.userChanged /\ lastEv.notified = 0
             /\ lastEv.mutated = 0)

C5_Witness ==
  /\ lastEv.act = "resolve"
  /\ lastEv.op = "logout"
  /\ lastEv.was # NoUser
  /\ user = NoUser
  /\ listenerCount = 1

\* C6: with the store's user absent, logoutUser, updateUser and getFreshJWT
\* fail with the "no current user" error, issue no backend call, leave user
\* and param as they are and do not invoke the listener.
C6_NoCurrentUser ==
  (lastEv.act = "call" /\ lastEv.op \in {"logout", "update", "jwt"} /\ user = NoUser)
    => /\ lastEv.kind = "throw"
       /\ lastEv.err = errors.noUserFound
       /\ lastEv.issued = 0
       /\ ~lastEv.userChanged
       /\ ~lastEv.paramChanged
       /\ lastEv.notified = 0
       /\ lastEv.mutated = 0

C6_Witness ==
  /\ lastEv.act = "call"
  /\ lastEv.op = "jwt"
  /\ user = NoUser
  /\ lastEv.kind = "throw"
  /\ BagCardinality(inflight) > 0

\* C7 as stated: when the backend resolves signupUser, loginUser or
\* updateUser with a user u, the store's user becomes u, the listener is
\* invoked exactly once with u, and the operation's own result is u.
C7_ResultIsUser ==
  (lastEv.act = "resolve" /\ lastEv.op \in {"signup", "login", "update"})
    => /\ user = lastEv.got
       /\ lastEv.notified = 1
       /\ listenerLast = lastEv.got
       /\ lastEv.kind = "value"
       /\ lastEv.val = lastEv.got

\* C7 amended: the store's user becomes u and the listener is invoked exactly
\* once with u; the operation's own result is u unless the listener throws,
\* and then it is the listener's failure.
C7_Amended ==
  (lastEv.act = "resolve" /\ lastEv.op \in {"signup", "login", "update"})
    => /\ user = lastEv.got
       /\ lastEv.notified = 1
       /\ listenerLast = lastEv.got
       /\ \/ lastEv.kind = "value" /\ lastEv.val = lastEv.got
          \/ lastEv.kind = "reject" /\ lastEv.err = "listener"

C7_Witness ==
  /\ lastEv.act = "resolve"
  /\ lastEv.op = "update"
  /\ lastEv.kind = "value"
  /\ lastEv.val = user
  /\ user # NoUser
  /\ lastEv.was # user

\* C8 as stated: when the backend rejects signupUser, loginUser, updateUser,
\* logoutUser or recoverAccount, the caller gets the rejection, the backend
\* call is not issued again, the listener is not invoked, and the store's
\* user is what it was when the operation was issued (raw setUser unused).
C8_RejectLeavesStoreAsIssued ==
  (lastEv.act = "reject" /\ rawSets = 0
     /\ lastEv.op \in {"signup", "login", "update", "logout", "recover"})
    => /\ lastEv.kind = "reject"
       /\ lastEv.err = "backend"
       /\ lastEv.issued = -1
       /\ lastEv.notified = 0
       /\ user = lastEv.was

\* C8 amended: ... and the rejection leaves the store's user as it was just
\* before the rejection (no setter call, no change of the slot).
C8_Amended ==
  (lastEv.act = "reject"
     /\ lastEv.op \in {"signup", "login", "update", "logout", "recover"})
    => /\ lastEv.kind = "reject"
       /\ lastEv.err = "backend"
       /\ lastEv.issued = -1
       /\ lastEv.notified = 0
       /\ lastEv.mutated = 0
       /\ ~lastEv.userChanged

C8_Witness ==
  /\ lastEv.act = "reject"
  /\ lastEv.op = "logout"
  /\ lastEv.kind = "reject"
  /\ user = lastEv.was
  /\ user # NoUser

\* C9: the same confirmation token, met by the flow router on two runs over
\* the same location, is sent to the backend's token confirmation at most
\* once.
C9_ConfirmAtMostOnce ==
  \A t \in ConfirmTypes : confirmCalls[t] <= 1

\* C10: for each mount the flow router was invoked exactly once when
\* automatic routing is enabled and never when it is disabled, whatever
\* state changes and facade operations followed the mount.
C10_RouterOncePerMount ==
  mounted => routerRuns = (IF enableRunRoutes THEN 1 ELSE 0)

C10_Witness ==
  /\ mounted
  /\ enableRunRoutes
  /\ routerRuns = 1
  /\ mutations = 2
  /\ calls = 2

\* The settings promise issued at mount has not settled yet.
SettingsPending == \E r \in BagToSet(inflight) : r.op = "settings"

\* C11: while mounted, the settings fetch has been issued exactly once; as
\* long as it is pending the settings are the documented default; once it
\* has resolved they are the fetched value, and the resolution by itself
\* touches neither the user nor param nor the listener.
C11_SettingsDefaultThenFetched ==
  mounted =>
    /\ settingsFetches = 1
    /\ settingsFetch = "pending" => (SettingsPending /\ settings = defaultSettings)
    /\ settingsFetch = "resolved" => (~SettingsPending /\ settings = fetchedSettings)
    /\ (lastEv.act = "resolve" /\ lastEv.op = "settings")
         => /\ settingsFetch = "resolved"
            /\ ~lastEv.userChanged /\ ~lastEv.paramChanged
            /\ lastEv.mutated = 0 /\ lastEv.notified = 0

\* The fetch resolves on a page without router work before any entry of
\* the API was invoked.
C11_Witness ==
  /\ mounted /\ calls = 0 /\ routerRuns = 0
  /\ lastEv.act = "resolve" /\ lastEv.op = "settings"
  /\ settings = fetchedSettings /\ settings # defaultSettings

\* C12: with an empty or invalid instance URL, through either entry point,
\* initialization ends in the fatal error: the hook is never mounted, no
\* GoTrue instance is constructed, no auth state exists and no backend call
\* is issued.
C12_InvalidUrlIsFatal ==
  (url = EmptyUrl \/ ~validateUrl(url))
    => /\ ~mounted
       /\ clients = <<>>
       /\ user = NoUser /\ param = defaultParam
       /\ inflight = EmptyBag
       /\ lastEv.act \in {"init", "init-error"}

\* C13: whatever else is in flight, the resolution of a loginUser or a
\* logoutUser settles that one call, makes the value it produced the
\* store's current user and notifies the listener exactly once with that
\* value: of two overlapping operations the one resolved last determines the
\* user, and the listener hears of each resolution in resolution order.
C13_LastResolvedWins ==
  (lastEv.act = "resolve" /\ lastEv.op \in {"login", "logout"})
    => /\ user = lastEv.got
       /\ listenerLast = lastEv.got
       /\ lastEv.notified = 1
       /\ lastEv.mutated = 1
       /\ lastEv.issued = -1
       /\ listenerCount >= 1 /\ listenerCount <= mutations

\* Two loginUser calls were issued while the store was empty; the first to
\* resolve (remembered) set the user, the second (not remembered) has just
\* resolved with another user, which is now the current one.
C13_Witness ==
  /\ mounted /\ mounts = 1 /\ routerRuns = 0 /\ rawSets = 0 /\ memoUser = NoUser
  /\ lastEv.act = "resolve" /\ lastEv.op = "login" /\ lastEv.was = NoUser
  /\ listenerCount = 2
  /\ persisted # NoUser /\ persisted # user
  /\ user = lastEv.got /\ listenerLast = user

\* C14: once the settings fetch has failed, in every later state of the
\* mount the settings are the default and the fetch is neither in flight
\* nor counted a second time; the failing step changes neither the user
\* nor param.
C14_FailedFetchKeepsDefault ==
  /\ (mounted /\ settingsFetch = "failed")
       => /\ settings = defaultSettings
          /\ settingsFetches = 1
          /\ ~SettingsPending
  /\ (lastEv.act = "reject" /\ lastEv.op = "settings")
       => /\ settingsFetch = "failed"
          /\ lastEv.kind = "reject"
          /\ ~lastEv.userChanged /\ ~lastEv.paramChanged
          /\ lastEv.mutated = 0 /\ lastEv.notified = 0

\* The fetch failed, and afterwards a loginUser was issued and resolved:
\* the user changed, the settings are still the default.
C14_Witness ==
  /\ mounted /\ settingsFetch = "failed"
  /\ lastEv.act = "resolve" /\ lastEv.op = "login" /\ lastEv.userChanged
  /\ inflight = EmptyBag
  /\ settings = defaultSettings

\* C15: at mount the store's user is the backend client's persisted user
\* (absent if there is none), the param of the first render is the default
\* TokenParam, and neither the setter nor the listener has been called for
\* the initial value.
C15_InitialState ==
  lastEv.act = "mount"
    => /\ user = persisted
       /\ memoUser = persisted
       /\ firstParam = defaultParam
       /\ mutations = 0
       /\ listenerCount = 0

\* A mount with a persisted session on a page opened through a link: the
\* first render had the default param, the router's effect then set its own.
C15_Witness ==
  /\ lastEv.act = "mount" /\ mounted
  /\ persisted # NoUser /\ user = persisted
  /\ firstParam = defaultParam /\ param # defaultParam
  /\ listenerCount = 0

\* The TokenParam a mount leaves in the param slot, given the link that
\* loaded the page.
ExpectedParam ==
  IF enableRunRoutes /\ (opened.token # NoToken \/ opened.error # "none")
    THEN [token |-> opened.token, type |-> opened.type, error |-> opened.error]
    ELSE defaultParam

\* C16: during a mount param has one value, fixed by the mount: the router's
\* TokenParam if that carries a token or an error, the default otherwise; no
\* facade operation, settled call or authedFetch changes it.
C16_ParamSetOnceAtMount ==
  /\ mounted => param = ExpectedParam
  /\ lastEv.act \in {"call", "authedFetch", "resolve", "reject"}
       => ~lastEv.paramChanged

\* The page came back from the provider with access_denied: param carries
\* the error, and still does after a loginUser was issued and resolved.
C16_Witness ==
  /\ mounted /\ param = ErrorLocation /\ param # defaultParam
  /\ lastEv.act = "resolve" /\ lastEv.op = "login" /\ lastEv.userChanged

\* C17: when the listener throws while it is notified by signupUser,
\* loginUser, updateUser or logoutUser, the operation's caller gets a failed
\* result and the store's user is what it was before.
C17_ListenerFailureIsAtomic ==
  (/\ lastEv.act = "resolve"
   /\ lastEv.op \in {"signup", "login", "update", "logout"}
   /\ lastEv.err = "listener")
    => /\ lastEv.kind = "reject"
       /\ ~lastEv.userChanged

\* The operations of the facade that call the GoTrue instance itself.
ClientOps ==
  {"signup", "login", "requestPasswordRecovery", "recover",
   "loginProvider", "acceptInviteExternalUrl"}

\* C18: while mounted there is one GoTrue instance per URL configured so
\* far, the latest being the one for the current URL, and each of signupUser,
\* loginUser, requestPasswordRecovery, recoverAccount, loginProvider and
\* acceptInviteExternalUrl delegates to the latest instance.
C18_DelegatesToCurrentClient ==
  /\ mounted
       => /\ clients # <<>>
          /\ clients[Len(clients)] = url
          /\ \A i, j \in 1..Len(clients) : clients[i] = clients[j] => i = j
  /\ (lastEv.act \in {"call", "loginProvider"} /\ lastEv.op \in ClientOps)
       => lastEv.client = lastEv.latest

====
